---- MODULE Spec2Model ----
(***************************************************************************)
(* Model of the DynamoDB repository of yuki5155/go-aws (package dynamodb): *)
(* ParseDynamoTag, getTableName, validateStruct, createConditionExpression *)
(* and the Repository operations Create, FindByID, FindByParameter, GetAll,*)
(* Update and Delete, run against a model of the store behind the          *)
(* DynamoDBClient interface.                                               *)
(*                                                                         *)
(* Go strings are TLA+ strings; struct tags are parsed character by        *)
(* character.  A record type is a descriptor of its fields (Go name, kind, *)
(* `dynamo` tag, `dynamodbav` name) and of its TableName method; a record  *)
(* value is the tuple of its field values.  The store is read and written  *)
(* one request at a time (each request is atomic and reads are consistent).*)
(***************************************************************************)
EXTENDS Integers, Sequences, FiniteSets, TLC

VARIABLES
    store,      \* store[t][k]: the item of table t under key value k, or NoItem
    repoTable,  \* Repository.tableName, the default table name
    call,       \* the Repository call that has just returned, or the idle record
    hist,       \* the last successful write call before this one
    procs,      \* concurrent callers (used by SpecConc only)
    script,     \* the results of the end-to-end caller's calls (used by SpecScript only)
    parse,      \* the last ParseDynamoTag call and its result (used by SpecTag only)
    log         \* the store at the start and the calls in the order the store
                \* served them (used by SpecMix only)

vars == <<store, repoTable, call, hist, procs, script, parse, log>>

(***************************************************************************)
(* Bounds of the model.                                                    *)
(***************************************************************************)
\* Items the store examines for one Scan page or returns in one Query page
\* (the store's page-size limit, counted in items).
PageLimit == 1
\* Concurrent callers in SpecConc.
NumProcs == 2
\* Option tokens after the first token of an annotation in SpecTag.
MaxOptions == 3

(***************************************************************************)
(* Strings.                                                                *)
(***************************************************************************)
Char(s, i) == SubSeq(s, i, i)

HasPrefix(s, p) == Len(s) >= Len(p) /\ SubSeq(s, 1, Len(p)) = p

TrimPrefix(s, p) == IF HasPrefix(s, p) THEN SubSeq(s, Len(p) + 1, Len(s)) ELSE s

RECURSIVE SplitFrom(_, _, _, _, _)
SplitFrom(s, sep, i, cur, acc) ==
    IF i > Len(s) THEN Append(acc, cur)
    ELSE IF i + Len(sep) - 1 <= Len(s) /\ SubSeq(s, i, i + Len(sep) - 1) = sep
         THEN SplitFrom(s, sep, i + Len(sep), "", Append(acc, cur))
         ELSE SplitFrom(s, sep, i + 1, cur \o Char(s, i), acc)

\* strings.Split(s, sep), for a non-empty sep
Split(s, sep) == SplitFrom(s, sep, 1, "", <<>>)

RECURSIVE JoinFrom(_, _, _)
JoinFrom(parts, sep, i) ==
    IF i > Len(parts) THEN ""
    ELSE IF i = Len(parts) THEN parts[i]
    ELSE parts[i] \o sep \o JoinFrom(parts, sep, i + 1)

\* strings.Join(parts, sep)
Join(parts, sep) == JoinFrom(parts, sep, 1)

\* strconv-style formatting of the int64 values the model uses, and back.
Digits == <<"0", "1", "2", "3", "4", "5", "6", "7", "8", "9">>
FormatInt(n) == Digits[n + 1]
IsInt(s) == \E n \in 0..9 : Digits[n + 1] = s
ParseInt(s) == CHOOSE n \in 0..9 : Digits[n + 1] = s

(***************************************************************************)
(* ParseDynamoTag.                                                         *)
(***************************************************************************)
EmptyParser == [AttributeName |-> "", KeyType |-> "", Index |-> "", Required |-> FALSE]

ApplyOption(parser, opt) ==
    IF HasPrefix(opt, "key=") THEN [parser EXCEPT !.KeyType = TrimPrefix(opt, "key=")]
    ELSE IF HasPrefix(opt, "index=") THEN [parser EXCEPT !.Index = TrimPrefix(opt, "index=")]
    ELSE IF opt = "required" THEN [parser EXCEPT !.Required = TRUE]
    ELSE parser

RECURSIVE ApplyOptions(_, _, _)
ApplyOptions(parser, options, i) ==
    IF i > Len(options) THEN parser
    ELSE ApplyOptions(ApplyOption(parser, options[i]), options, i + 1)

ParseDynamoTag(tag) ==
    IF tag = "" THEN EmptyParser
    ELSE LET options == Split(tag, ",")
             named == IF Len(options) > 0 /\ options[1] # ""
                      THEN [EmptyParser EXCEPT !.AttributeName = options[1]]
                      ELSE EmptyParser
         IN ApplyOptions(named, options, 2)

(***************************************************************************)
(* Record types: the structs callers pass to the Repository.               *)
(***************************************************************************)
Field(goName, kind, hasDynamo, dynamo, dynamodbav) ==
    [goName |-> goName, kind |-> kind, hasDynamo |-> hasDynamo,
     dynamo |-> dynamo, dynamodbav |-> dynamodbav, parsed |-> ParseDynamoTag(dynamo)]

\* type User, with func (u *User) TableName() string { return "Users" }
UserType ==
    [name |-> "User", isStruct |-> TRUE, namer |-> "ptr", table |-> "Users",
     fields |-> << Field("ID", "string", TRUE, "id,key=hash", "id"),
                   Field("Email", "string", TRUE, "email,required,index=email-index", "email"),
                   Field("Name", "string", TRUE, "name,required", "name"),
                   Field("CreatedAt", "int64", TRUE, "created_at", "created_at") >>]

\* A record type that declares no hash key and has no TableName method.
NoteType ==
    [name |-> "Note", isStruct |-> TRUE, namer |-> "none", table |-> "",
     fields |-> << Field("ID", "string", TRUE, "id", "id"),
                   Field("Text", "string", TRUE, "text,required", "text") >>]

\* A Go string passed where a struct is expected.
StringType == [name |-> "string", isStruct |-> FALSE, namer |-> "none", table |-> "", fields |-> <<>>]

\* A record type whose only tagged field is its hash key.
KeyOnlyType ==
    [name |-> "KeyOnly", isStruct |-> TRUE, namer |-> "none", table |-> "",
     fields |-> << Field("ID", "string", TRUE, "id,key=hash", "id") >>]

\* A record type without any tagged field.
BareType ==
    [name |-> "Bare", isStruct |-> TRUE, namer |-> "none", table |-> "",
     fields |-> << Field("X", "string", FALSE, "", "") >>]

\* A record type with a field whose `dynamo` tag names an attribute but which has
\* no `dynamodbav` tag, and a field without any tag.
SessionType ==
    [name |-> "Session", isStruct |-> TRUE, namer |-> "none", table |-> "",
     fields |-> << Field("ID", "string", TRUE, "id,key=hash", "id"),
                   Field("Owner", "string", TRUE, "owner", ""),
                   Field("Token", "string", FALSE, "", "") >>]

\* A record type that tags two fields key=hash.
PairType ==
    [name |-> "Pair", isStruct |-> TRUE, namer |-> "none", table |-> "",
     fields |-> << Field("ID", "string", TRUE, "id,key=hash", "id"),
                   Field("Sort", "string", TRUE, "sk,key=hash", "sk"),
                   Field("Val", "string", TRUE, "val", "val") >>]

\* A record type with a non-key attribute named "k".
FlagType ==
    [name |-> "Flag", isStruct |-> TRUE, namer |-> "none", table |-> "",
     fields |-> << Field("ID", "string", TRUE, "id,key=hash", "id"),
                   Field("K", "string", TRUE, "k", "k") >>]

Types == {UserType, NoteType, StringType, KeyOnlyType, BareType, SessionType, PairType, FlagType}

TypeNamed(n) == CHOOSE T \in Types : T.name = n

\* The record values callers pass in.
UserRecords ==
    { <<id, c[1], c[2], c[3]>> :
        id \in {"u1", "u2"},
        c \in { <<"a@x.com", "A", 1>>, <<"b@x.com", "A", 1>>, <<"a@x.com", "B", 1>>,
                <<"", "B", 0>>, <<"", "", 0>>, <<"a@x.com", "", 1>> } }

NoteRecords == { <<"u1", "t">>, <<"u1", "">> }

StringRecords == { <<"x">> }

KeyOnlyRecords == { <<"u1">> }

BareRecords == { <<"x">> }

SessionRecords == { <<"u1", "o", "t">> }

PairRecords == { <<"u1", "s1", "v">> }

FlagRecords == { <<"u1", "x">> }

RecordsOf(T) ==
    IF T.name = "User" THEN UserRecords
    ELSE IF T.name = "Note" THEN NoteRecords
    ELSE IF T.name = "KeyOnly" THEN KeyOnlyRecords
    ELSE IF T.name = "Bare" THEN BareRecords
    ELSE IF T.name = "Session" THEN SessionRecords
    ELSE IF T.name = "Pair" THEN PairRecords
    ELSE IF T.name = "Flag" THEN FlagRecords
    ELSE StringRecords

\* reflect.Zero(T)
ZeroValue(kind) == IF kind = "int64" THEN 0 ELSE ""
ZeroRecord(T) == [i \in 1..Len(T.fields) |-> ZeroValue(T.fields[i].kind)]

\* reflect.Value.IsZero
IsZero(kind, v) == v = ZeroValue(kind)

\* ParseDynamoTag(tag) of a field's tag, which depends on the tag alone.
TagOf(f) == f.parsed

(***************************************************************************)
(* attributevalue: Marshal, MarshalMap, UnmarshalMap, UnmarshalListOfMaps. *)
(* Attribute names come from the `dynamodbav` tag (the Go field name when  *)
(* there is none, "-" leaves the field out).                               *)
(***************************************************************************)
AttrS(s) == [t |-> "S", v |-> s]
AttrN(n) == [t |-> "N", v |-> FormatInt(n)]

Marshal(kind, v) == IF kind = "int64" THEN AttrN(v) ELSE AttrS(v)

AvName(f) == IF f.dynamodbav = "" THEN f.goName ELSE f.dynamodbav

AvFields(T) == {i \in 1..Len(T.fields) : T.fields[i].dynamodbav # "-"}

FieldOfAttr(T, a) == CHOOSE i \in AvFields(T) : AvName(T.fields[i]) = a

MarshalMap(T, rec) ==
    [a \in {AvName(T.fields[i]) : i \in AvFields(T)} |->
        Marshal(T.fields[FieldOfAttr(T, a)].kind, rec[FieldOfAttr(T, a)])]

\* Whether an attribute value decodes into a field of this kind.
Decodes(kind, av) ==
    IF kind = "int64" THEN av.t = "N" /\ IsInt(av.v) ELSE av.t = "S"

Decode(kind, av) == IF kind = "int64" THEN ParseInt(av.v) ELSE av.v

\* Fields whose attribute is absent from the item keep what out held.
UnmarshalMap(item, T, out) ==
    LET present == {i \in AvFields(T) : AvName(T.fields[i]) \in DOMAIN item}
        bad == {i \in present : ~Decodes(T.fields[i].kind, item[AvName(T.fields[i])])}
    IN [ok |-> bad = {},
        out |-> [i \in 1..Len(T.fields) |->
                    IF i \in present \ bad
                    THEN Decode(T.fields[i].kind, item[AvName(T.fields[i])])
                    ELSE out[i]]]

\* decodeList into a slice: a nil or too small slice is replaced by a new one of
\* length 0; then element i is decoded in place and the length set to i, for each
\* item.  With no item the slice is not touched beyond that.
UnmarshalListOfMaps(items, T, out) ==
    LET base == IF out.isNil \/ out.cap < Len(items)
                THEN [isNil |-> FALSE, cap |-> Len(items), elems |-> <<>>]
                ELSE out
        slot(i) == IF i <= Len(out.elems) /\ base = out THEN out.elems[i] ELSE ZeroRecord(T)
        decoded == [i \in 1..Len(items) |-> UnmarshalMap(items[i], T, slot(i))]
        firstBad == IF \A i \in 1..Len(items) : decoded[i].ok THEN 0
                    ELSE CHOOSE i \in 1..Len(items) :
                            ~decoded[i].ok /\ \A j \in 1..(i - 1) : decoded[j].ok
        n == IF firstBad = 0 THEN Len(items) ELSE firstBad
    IN [ok |-> firstBad = 0,
        out |-> IF n = 0 THEN base
                ELSE [base EXCEPT !.elems = [i \in 1..n |-> decoded[i].out]]]

NilSlice == [isNil |-> TRUE, cap |-> 0, elems |-> <<>>]

(***************************************************************************)
(* Errors.  errors.Is(err, target) is equality with the sentinel: the      *)
(* errors fmt.Errorf builds here never wrap a sentinel.                    *)
(***************************************************************************)
Nil == [kind |-> "nil", text |-> "", cause |-> ""]
ErrDuplicateKey == [kind |-> "sentinel", text |-> "item with this key already exists", cause |-> ""]
ErrNotFound == [kind |-> "sentinel", text |-> "item not found", cause |-> ""]
Errorf(text, cause) == [kind |-> "errorf", text |-> text, cause |-> cause]
Panic == [kind |-> "panic", text |-> "", cause |-> ""]

\* What the client returns besides success.
ConditionalCheckFailed == "ConditionalCheckFailedException"
StoreFailure == "StoreFailure"

ErrorsIs(err, target) == err = target

(***************************************************************************)
(* The store behind DynamoDBClient: tables with a hash key and global      *)
(* secondary indexes, requests carrying expression strings.                *)
(***************************************************************************)
Tables == {"Users", "Users-dev"}

\* KeySchema: the hash key attribute of each table.
TableKey(t) == "id"

\* GlobalSecondaryIndexes: index name -> its hash key attribute.
TableIndexes(t) ==
    IF t = "Users" THEN ("email-index" :> "email")
    ELSE ("email-index" :> "email") @@ ("name-index" :> "name")

\* The key values of the model, in the order the store returns items.
KeyOrder == <<"u1", "u2">>
KeyValues == {KeyOrder[i] : i \in 1..Len(KeyOrder)}

NoItem == <<>>
NoMap == <<>>

EmptyStore == [t \in Tables |-> [k \in KeyValues |-> NoItem]]

ItemAt(st, t, k) == IF t \in Tables /\ k \in KeyValues THEN st[t][k] ELSE NoItem

\* The items of a table, in store order.
RECURSIVE ItemsFrom(_, _, _)
ItemsFrom(st, t, i) ==
    IF i > Len(KeyOrder) THEN <<>>
    ELSE IF st[t][KeyOrder[i]] = NoItem THEN ItemsFrom(st, t, i + 1)
    ELSE <<st[t][KeyOrder[i]]>> \o ItemsFrom(st, t, i + 1)

TableItems(st, t) == ItemsFrom(st, t, 1)

NoRequest ==
    [api |-> "", TableName |-> "", Item |-> NoItem, Key |-> NoMap,
     ConditionExpression |-> "", IndexName |-> "", KeyConditionExpression |-> "",
     FilterExpression |-> "", UpdateExpression |-> "",
     ExpressionAttributeNames |-> NoMap, ExpressionAttributeValues |-> NoMap]

\* An expression path: a placeholder #x stands for ExpressionAttributeNames[#x].
PathOk(req, path) ==
    /\ path # ""
    /\ HasPrefix(path, "#") => path \in DOMAIN req.ExpressionAttributeNames
ResolvePath(req, path) ==
    IF HasPrefix(path, "#") THEN req.ExpressionAttributeNames[path] ELSE path

\* One term of a condition: attribute_exists(path) or attribute_not_exists(path).
ParseTerm(term) ==
    LET fn == IF HasPrefix(term, "attribute_not_exists(") THEN "attribute_not_exists"
              ELSE IF HasPrefix(term, "attribute_exists(") THEN "attribute_exists"
              ELSE ""
        inner == TrimPrefix(term, fn \o "(")
    IN [fn |-> fn,
        path |-> IF Len(inner) > 0 /\ Char(inner, Len(inner)) = ")"
                 THEN SubSeq(inner, 1, Len(inner) - 1) ELSE ""]

\* The terms of "term AND term ...".
ParseCondition(expr) ==
    LET terms == Split(expr, " AND ")
    IN [i \in 1..Len(terms) |-> ParseTerm(terms[i])]

\* The sides of each "path = :ref" of a clause list "c, c ..." (a key condition
\* and a filter are lists of one clause).
ParseClauses(expr) ==
    LET clauses == Split(expr, ", ")
    IN [i \in 1..Len(clauses) |-> Split(clauses[i], " = ")]

\* Expressions are parsed once and kept.
ParsedConditions ==
    [e \in {"attribute_not_exists(id)", "attribute_exists(id)", "attribute_exists(#k)",
            "attribute_not_exists(id) AND attribute_not_exists(sk)"} |->
        ParseCondition(e)]
ParsedClauses ==
    [e \in {"email = :v", "name = :v", "zip = :v",
            "#email = :email, #name = :name, #created_at = :created_at", "#text = :text",
            "#owner = :owner", "#val = :val", "#k = :k"} |->
        ParseClauses(e)]

ConditionTerms(expr) ==
    IF expr \in DOMAIN ParsedConditions THEN ParsedConditions[expr] ELSE ParseCondition(expr)
Clauses(expr) ==
    IF expr \in DOMAIN ParsedClauses THEN ParsedClauses[expr] ELSE ParseClauses(expr)

\* An empty condition expression is invalid, as is one that does not parse.
ConditionOk(req) ==
    /\ req.ConditionExpression # ""
    /\ LET terms == ConditionTerms(req.ConditionExpression)
       IN \A i \in 1..Len(terms) : terms[i].fn # "" /\ PathOk(req, terms[i].path)

ConditionHolds(req, existing) ==
    LET terms == ConditionTerms(req.ConditionExpression)
    IN \A i \in 1..Len(terms) :
        LET present == ResolvePath(req, terms[i].path) \in DOMAIN existing
        IN IF terms[i].fn = "attribute_exists" THEN present ELSE ~present

\* A clause "path = :ref", given by its sides.
ClauseOk(req, sides) ==
    /\ Len(sides) = 2
    /\ PathOk(req, sides[1])
    /\ sides[2] \in DOMAIN req.ExpressionAttributeValues
ClauseAttr(req, sides) == ResolvePath(req, sides[1])
ClauseValue(req, sides) == req.ExpressionAttributeValues[sides[2]]

Matches(req, sides, item) ==
    /\ ClauseAttr(req, sides) \in DOMAIN item
    /\ item[ClauseAttr(req, sides)] = ClauseValue(req, sides)

KeyOk(req) ==
    /\ req.TableName \in Tables
    /\ DOMAIN req.Key = {TableKey(req.TableName)}
    /\ req.Key[TableKey(req.TableName)].t = "S"
KeyOf(req) == req.Key[TableKey(req.TableName)].v

Response(err, st, items, more) == [err |-> err, store |-> st, items |-> items, more |-> more]

Min(a, b) == IF a < b THEN a ELSE b

\* PutItem: writes the item if the condition holds of the item now under its key.
PutItem(st, req, fail) ==
    LET t == req.TableName
        valid == /\ t \in Tables
                 /\ TableKey(t) \in DOMAIN req.Item
                 /\ req.Item[TableKey(t)].t = "S"
                 /\ ConditionOk(req)
        k == req.Item[TableKey(t)].v
    IN IF fail \/ ~valid THEN Response(StoreFailure, st, <<>>, FALSE)
       ELSE IF ~ConditionHolds(req, st[t][k])
            THEN Response(ConditionalCheckFailed, st, <<>>, FALSE)
            ELSE Response("", [st EXCEPT ![t][k] = req.Item], <<>>, FALSE)

\* GetItem: the item under the key, or none.
GetItem(st, req, fail) ==
    IF fail \/ ~KeyOk(req) THEN Response(StoreFailure, st, <<>>, FALSE)
    ELSE LET item == ItemAt(st, req.TableName, KeyOf(req))
         IN Response("", st, IF item = NoItem THEN <<>> ELSE <<item>>, FALSE)

\* Query on an index: one page of the items whose index key equals the value;
\* more is set (LastEvaluatedKey) when matching items remain.
Query(st, req, fail) ==
    LET t == req.TableName
        cond == Clauses(req.KeyConditionExpression)
        valid == /\ t \in Tables
                 /\ req.IndexName \in DOMAIN TableIndexes(t)
                 /\ Len(cond) = 1
                 /\ ClauseOk(req, cond[1])
                 /\ ClauseAttr(req, cond[1]) = TableIndexes(t)[req.IndexName]
        hits == SelectSeq(TableItems(st, t), LAMBDA it : Matches(req, cond[1], it))
    IN IF fail \/ ~valid THEN Response(StoreFailure, st, <<>>, FALSE)
       ELSE Response("", st, SubSeq(hits, 1, Min(PageLimit, Len(hits))),
                     Len(hits) > PageLimit)

\* Scan: examines one page of the table and returns the examined items that pass
\* the filter; more is set (LastEvaluatedKey) when items remain unexamined.
Scan(st, req, fail) ==
    LET t == req.TableName
        filter == Clauses(req.FilterExpression)
        valid == /\ t \in Tables
                 /\ req.FilterExpression # "" => Len(filter) = 1 /\ ClauseOk(req, filter[1])
        all == TableItems(st, t)
        page == SubSeq(all, 1, Min(PageLimit, Len(all)))
        hits == IF req.FilterExpression = "" THEN page
                ELSE SelectSeq(page, LAMBDA it : Matches(req, filter[1], it))
    IN IF fail \/ ~valid THEN Response(StoreFailure, st, <<>>, FALSE)
       ELSE Response("", st, hits, Len(all) > PageLimit)

\* UpdateItem: assigns the SET clauses to the item under the key if the condition
\* holds.  Every placeholder name and value must be used, no attribute may be
\* assigned twice, and the key attribute may not be assigned.
UpdateItem(st, req, fail) ==
    LET t == req.TableName
        clauses == Clauses(TrimPrefix(req.UpdateExpression, "SET "))
        terms == ConditionTerms(req.ConditionExpression)
        usedNames == {clauses[i][1] : i \in 1..Len(clauses)}
                        \cup {terms[i].path : i \in 1..Len(terms)}
        usedValues == {clauses[i][2] : i \in {j \in 1..Len(clauses) : Len(clauses[j]) = 2}}
        valid == /\ KeyOk(req)
                 /\ ConditionOk(req)
                 /\ HasPrefix(req.UpdateExpression, "SET ")
                 /\ \A i \in 1..Len(clauses) : ClauseOk(req, clauses[i])
                 /\ DOMAIN req.ExpressionAttributeNames \subseteq usedNames
                 /\ DOMAIN req.ExpressionAttributeValues \subseteq usedValues
                 /\ \A i, j \in 1..Len(clauses) :
                        i # j => ClauseAttr(req, clauses[i]) # ClauseAttr(req, clauses[j])
                 /\ \A i \in 1..Len(clauses) : ClauseAttr(req, clauses[i]) # TableKey(t)
        old == ItemAt(st, t, KeyOf(req))
        assigned == {ClauseAttr(req, clauses[i]) : i \in 1..Len(clauses)}
        clauseOf(a) == CHOOSE i \in 1..Len(clauses) : ClauseAttr(req, clauses[i]) = a
        new == [a \in DOMAIN old \cup DOMAIN req.Key \cup assigned |->
                    IF a \in assigned THEN ClauseValue(req, clauses[clauseOf(a)])
                    ELSE IF a \in DOMAIN req.Key THEN req.Key[a]
                    ELSE old[a]]
    IN IF fail \/ ~valid THEN Response(StoreFailure, st, <<>>, FALSE)
       ELSE IF ~ConditionHolds(req, old)
            THEN Response(ConditionalCheckFailed, st, <<>>, FALSE)
            ELSE Response("", [st EXCEPT ![t][KeyOf(req)] = new], <<>>, FALSE)

\* DeleteItem: removes the item under the key if the condition holds.
DeleteItem(st, req, fail) ==
    LET valid == KeyOk(req) /\ ConditionOk(req)
    IN IF fail \/ ~valid THEN Response(StoreFailure, st, <<>>, FALSE)
       ELSE IF ~ConditionHolds(req, ItemAt(st, req.TableName, KeyOf(req)))
            THEN Response(ConditionalCheckFailed, st, <<>>, FALSE)
            ELSE Response("", [st EXCEPT ![req.TableName][KeyOf(req)] = NoItem], <<>>, FALSE)

(***************************************************************************)
(* Repository.  An argument is passed as a struct value ("value"), as a    *)
(* pointer to it ("ptr"), as a nil pointer ("nilptr") or as nil ("nil").   *)
(***************************************************************************)
TaggedFields(T) == SelectSeq(T.fields, LAMBDA f : f.hasDynamo)

\* Whether a value of this shape implements TableNamer: a pointer-receiver
\* method is in the method set of the pointer only.
Implements(T, shape) ==
    \/ T.namer = "value" /\ shape \in {"value", "ptr", "nilptr"}
    \/ T.namer = "ptr" /\ shape \in {"ptr", "nilptr"}

\* reflect.ValueOf(item).Elem().Interface() of a nil pointer panics.
getTableNamePanics(T, shape) == shape = "nilptr" /\ ~Implements(T, shape)

getTableName(tableName, T, shape) ==
    IF Implements(T, shape) THEN T.table
    ELSE IF shape \in {"ptr", "nilptr"} /\ Implements(T, "value") THEN T.table
    ELSE tableName

\* The last missing field is reported instead of the first.
validateStruct_Last(T, rec, shape) ==
    IF shape \notin {"value", "ptr"} \/ ~T.isStruct THEN "item must be a struct"
    ELSE LET missing == {i \in 1..Len(T.fields) :
                            /\ T.fields[i].hasDynamo
                            /\ TagOf(T.fields[i]).Required
                            /\ IsZero(T.fields[i].kind, rec[i])}
         IN IF missing = {} THEN ""
            ELSE "field " \o T.fields[CHOOSE i \in missing : \A j \in missing : i >= j].goName
                    \o " is required"

\* The text of validateStruct's error, "" for none.
validateStruct(T, rec, shape) ==
    IF shape \notin {"value", "ptr"} \/ ~T.isStruct THEN "item must be a struct"
    ELSE LET missing == {i \in 1..Len(T.fields) :
                            /\ T.fields[i].hasDynamo
                            /\ TagOf(T.fields[i]).Required
                            /\ IsZero(T.fields[i].kind, rec[i])}
         IN IF missing = {} THEN ""
            ELSE "field " \o T.fields[CHOOSE i \in missing : \A j \in missing : i <= j].goName
                    \o " is required"

\* The condition names the Go field instead of the attribute.
createConditionExpression_GoName(T) ==
    LET hash == SelectSeq(TaggedFields(T), LAMBDA f : TagOf(f).KeyType = "hash")
        conditions == [i \in 1..Len(hash) |-> "attribute_not_exists(" \o hash[i].goName \o ")"]
    IN IF Len(conditions) = 0 THEN "" ELSE Join(conditions, " AND ")

createConditionExpression(T) ==
    LET hash == SelectSeq(TaggedFields(T), LAMBDA f : TagOf(f).KeyType = "hash")
        conditions == [i \in 1..Len(hash) |->
                        "attribute_not_exists(" \o TagOf(hash[i]).AttributeName \o ")"]
    IN IF Len(conditions) = 0 THEN "" ELSE Join(conditions, " AND ")

Result(err, st, reqs, resps, out) ==
    [err |-> err, store |-> st, reqs |-> reqs, resps |-> resps, out |-> out]

\* The PutItemInput Create builds.
CreateInput(tableName, T, rec, shape) ==
    [NoRequest EXCEPT !.api = "PutItem",
                      !.TableName = getTableName(tableName, T, shape),
                      !.Item = MarshalMap(T, rec),
                      !.ConditionExpression = createConditionExpression(T)]

\* The failed condition is wrapped like any other store error.
CreateReturn_Wrapped(respErr) ==
    IF respErr # "" THEN Errorf("failed to put item", respErr) ELSE Nil

\* What Create returns for what PutItem returned.
CreateReturn(respErr) ==
    IF respErr = ConditionalCheckFailed THEN ErrDuplicateKey
    ELSE IF respErr # "" THEN Errorf("failed to put item", respErr)
    ELSE Nil

Create(st, tableName, T, rec, shape, fail) ==
    LET invalid == validateStruct(T, rec, shape)
        input == CreateInput(tableName, T, rec, shape)
        resp == PutItem(st, input, fail)
    IN IF invalid # "" THEN Result(Errorf("validation error", invalid), st, <<>>, <<>>, rec)
       ELSE Result(CreateReturn(resp.err), resp.store, <<input>>, <<resp.err>>, rec)

\* The attribute name of the first field tagged key=hash, "" when there is none.
FirstHashKey(T) ==
    LET hash == SelectSeq(TaggedFields(T), LAMBDA f : TagOf(f).KeyType = "hash")
    IN IF Len(hash) = 0 THEN "" ELSE TagOf(hash[1]).AttributeName

FindByID(st, tableName, T, shape, id, out, fail) ==
    LET keyAttribute == FirstHashKey(T)
        input == [NoRequest EXCEPT !.api = "GetItem",
                                   !.TableName = getTableName(tableName, T, shape),
                                   !.Key = (keyAttribute :> AttrS(id))]
        resp == GetItem(st, input, fail)
        decoded == UnmarshalMap(resp.items[1], T, out)
    IN IF getTableNamePanics(T, shape) \/ shape = "nil" THEN Result(Panic, st, <<>>, <<>>, out)
       ELSE IF shape \notin {"ptr", "nilptr"}
            THEN Result(Errorf("out must be a pointer", ""), st, <<>>, <<>>, out)
       ELSE IF ~T.isStruct
            THEN Result(Errorf("out must be a pointer to struct", ""), st, <<>>, <<>>, out)
       ELSE IF keyAttribute = ""
            THEN Result(Errorf("no hash key defined in struct", ""), st, <<>>, <<>>, out)
       ELSE IF resp.err # ""
            THEN Result(Errorf("failed to get item", resp.err), st, <<input>>, <<resp.err>>, out)
       ELSE IF resp.items = <<>>
            THEN Result(Errorf("item not found", ""), st, <<input>>, <<resp.err>>, out)
       ELSE IF shape = "nilptr" \/ ~decoded.ok
            THEN Result(Errorf("failed to unmarshal item", "unmarshal"), st, <<input>>, <<resp.err>>,
                        IF shape = "nilptr" THEN out ELSE decoded.out)
       ELSE Result(Nil, st, <<input>>, <<resp.err>>, decoded.out)

\* The index of the first indexed field, whatever its attribute name.
IndexFor_AnyIndexed(T, parameter) ==
    LET hits == SelectSeq(TaggedFields(T), LAMBDA f : TagOf(f).Index # "")
    IN IF Len(hits) = 0 THEN "" ELSE TagOf(hits[1]).Index

\* The index declared by the first tagged field whose attribute name is the
\* parameter and whose index is not empty; "" when there is none.
IndexFor(T, parameter) ==
    LET hits == SelectSeq(TaggedFields(T),
                    LAMBDA f : /\ TagOf(f).AttributeName = parameter
                               /\ TagOf(f).Index # "")
    IN IF Len(hits) = 0 THEN "" ELSE TagOf(hits[1]).Index

\* The checks FindByParameter and GetAll make of out, "" when it passes.  out is a
\* pointer to a slice of T ("ptrSlice"), a slice ("slice") or a pointer to T
\* ("ptrStruct").
SliceOutError(T, shape) ==
    IF shape = "slice" THEN "out must be a pointer to slice"
    ELSE IF shape = "ptrStruct" THEN "out must be a pointer to slice"
    ELSE IF ~T.isStruct THEN "slice element must be a struct"
    ELSE ""

FindByParameter(st, tableName, T, shape, parameter, value, out, fail) ==
    LET indexName == IndexFor(T, parameter)
        useQuery == indexName # ""
        exprAttrValues == (":v" :> AttrS(value))
        queryInput == [NoRequest EXCEPT !.api = "Query",
                                        !.TableName = getTableName(tableName, T, "ptr"),
                                        !.IndexName = indexName,
                                        !.KeyConditionExpression = parameter \o " = :v",
                                        !.ExpressionAttributeValues = exprAttrValues]
        scanInput == [NoRequest EXCEPT !.api = "Scan",
                                       !.TableName = getTableName(tableName, T, "ptr"),
                                       !.FilterExpression = parameter \o " = :v",
                                       !.ExpressionAttributeValues = exprAttrValues]
        input == IF useQuery THEN queryInput ELSE scanInput
        resp == IF useQuery THEN Query(st, input, fail) ELSE Scan(st, input, fail)
        decoded == UnmarshalListOfMaps(resp.items, T, out)
    IN IF SliceOutError(T, shape) # ""
       THEN Result(Errorf(SliceOutError(T, shape), ""), st, <<>>, <<>>, out)
       ELSE IF resp.err # ""
            THEN Result(Errorf(IF useQuery THEN "failed to query" ELSE "failed to scan", resp.err),
                        st, <<input>>, <<resp.err>>, out)
       ELSE IF ~decoded.ok
            THEN Result(Errorf(IF useQuery THEN "failed to unmarshal query result"
                               ELSE "failed to unmarshal scan result", "unmarshal"),
                        st, <<input>>, <<resp.err>>, decoded.out)
       ELSE Result(Nil, st, <<input>>, <<resp.err>>, decoded.out)

GetAll(st, tableName, T, shape, out, fail) ==
    LET input == [NoRequest EXCEPT !.api = "Scan",
                                   !.TableName = getTableName(tableName, T, "ptr")]
        resp == Scan(st, input, fail)
        decoded == UnmarshalListOfMaps(resp.items, T, out)
    IN IF SliceOutError(T, shape) # ""
       THEN Result(Errorf(SliceOutError(T, shape), ""), st, <<>>, <<>>, out)
       ELSE IF resp.err # ""
            THEN Result(Errorf("failed to scan", resp.err), st, <<input>>, <<resp.err>>, out)
       ELSE IF ~decoded.ok
            THEN Result(Errorf("failed to unmarshal scan result", "unmarshal"),
                        st, <<input>>, <<resp.err>>, decoded.out)
       ELSE Result(Nil, st, <<input>>, <<resp.err>>, decoded.out)

\* Only the key and the required fields are walked.
NamedFields_Required(T) ==
    SelectSeq(T.fields, LAMBDA f : /\ f.hasDynamo
                                   /\ TagOf(f).AttributeName # ""
                                   /\ (TagOf(f).Required \/ TagOf(f).KeyType = "hash"))

\* The tagged fields Update walks: those whose tag names an attribute.
NamedFields(T) == SelectSeq(T.fields,
                    LAMBDA f : f.hasDynamo /\ TagOf(f).AttributeName # "")

FieldIndex(T, f) == CHOOSE i \in 1..Len(T.fields) : T.fields[i] = f

\* The item not being there is reported as success.
UpdateReturn_Swallowed(respErr) ==
    IF respErr = ConditionalCheckFailed THEN Nil
    ELSE IF respErr # "" THEN Errorf("failed to update item", respErr)
    ELSE Nil

\* What Update returns for what UpdateItem returned.
UpdateReturn(respErr) ==
    IF respErr = ConditionalCheckFailed THEN ErrNotFound
    ELSE IF respErr # "" THEN Errorf("failed to update item", respErr)
    ELSE Nil

\* A request the store failed is issued once more.
UpdateResult_Retried(input, resp, rec) ==
    Result(UpdateReturn(resp.err), resp.store,
           IF resp.err = StoreFailure THEN <<input, input>> ELSE <<input>>,
           IF resp.err = StoreFailure THEN <<resp.err, resp.err>> ELSE <<resp.err>>, rec)

UpdateResult(input, resp, rec) ==
    Result(UpdateReturn(resp.err), resp.store, <<input>>, <<resp.err>>, rec)

\* Update from the UpdateItem call on.
UpdateWith(st, input, rec, fail) == UpdateResult(input, UpdateItem(st, input, fail), rec)

\* The UpdateItemInput Update builds from its walk of the fields.
UpdateInput(tableName, T, rec, shape) ==
    LET attr(f) == TagOf(f).AttributeName
        isKey(f) == TagOf(f).KeyType = "hash"
        marshaled(f) == Marshal(f.kind, rec[FieldIndex(T, f)])
        keys == SelectSeq(NamedFields(T), isKey)
        others == SelectSeq(NamedFields(T), LAMBDA f : ~isKey(f))
        keyAttr == IF Len(keys) = 0 THEN "" ELSE attr(keys[Len(keys)])
        lastWith(fs, a) == fs[CHOOSE i \in 1..Len(fs) :
                                attr(fs[i]) = a /\ \A j \in (i + 1)..Len(fs) : attr(fs[j]) # a]
        keyMap == [a \in {attr(keys[i]) : i \in 1..Len(keys)} |-> marshaled(lastWith(keys, a))]
        updateExpressions == [i \in 1..Len(others) |->
                                ("#" \o attr(others[i])) \o " = " \o (":" \o attr(others[i]))]
        fieldNames == [n \in {"#" \o attr(others[i]) : i \in 1..Len(others)} |->
                        TrimPrefix(n, "#")]
        exprAttrValues == [v \in {":" \o attr(others[i]) : i \in 1..Len(others)} |->
                            marshaled(lastWith(others, TrimPrefix(v, ":")))]
        keyPlaceholder == "#k"
        exprAttrNames == [n \in DOMAIN fieldNames \cup {keyPlaceholder} |->
                            IF n = keyPlaceholder THEN keyAttr ELSE fieldNames[n]]
    IN [NoRequest EXCEPT !.api = "UpdateItem",
                         !.TableName = getTableName(tableName, T, shape),
                         !.Key = keyMap,
                         !.UpdateExpression = "SET " \o Join(updateExpressions, ", "),
                         !.ExpressionAttributeNames = exprAttrNames,
                         !.ExpressionAttributeValues = exprAttrValues,
                         !.ConditionExpression = "attribute_exists(" \o keyPlaceholder \o ")"]

\* The text of the error Update returns before it builds a request, "" for none.
UpdateRefused(T, shape) ==
    LET isKey(f) == TagOf(f).KeyType = "hash"
    IN IF shape \notin {"value", "ptr"} \/ ~T.isStruct THEN "item must be a struct"
       ELSE IF SelectSeq(NamedFields(T), isKey) = <<>> THEN "no hash key defined in struct"
       ELSE IF SelectSeq(NamedFields(T), LAMBDA f : ~isKey(f)) = <<>>
            THEN "no updatable fields found"
       ELSE ""

Update(st, tableName, T, rec, shape, fail) ==
    IF UpdateRefused(T, shape) # ""
    THEN Result(Errorf(UpdateRefused(T, shape), ""), st, <<>>, <<>>, rec)
    ELSE UpdateWith(st, UpdateInput(tableName, T, rec, shape), rec, fail)

\* The item not being there is reported as success.
DeleteReturn_Swallowed(respErr) ==
    IF respErr = ConditionalCheckFailed THEN Nil
    ELSE IF respErr # "" THEN Errorf("failed to delete item", respErr)
    ELSE Nil

\* What Delete returns for what DeleteItem returned.
DeleteReturn(respErr) ==
    IF respErr = ConditionalCheckFailed THEN ErrNotFound
    ELSE IF respErr # "" THEN Errorf("failed to delete item", respErr)
    ELSE Nil

DeleteResult(input, resp) ==
    Result(DeleteReturn(resp.err), resp.store, <<input>>, <<resp.err>>, <<>>)

\* Delete from the DeleteItem call on.
DeleteWith(st, input, fail) == DeleteResult(input, DeleteItem(st, input, fail))

\* The DeleteItemInput Delete builds.
DeleteInput(tableName, id) ==
    [NoRequest EXCEPT !.api = "DeleteItem",
                      !.TableName = tableName,
                      !.Key = ("id" :> AttrS(id)),
                      !.ConditionExpression = "attribute_exists(id)"]

Delete(st, tableName, id, fail) == DeleteWith(st, DeleteInput(tableName, id), fail)

(***************************************************************************)
(* Callers.  In Spec one caller makes one call at a time: a call runs to   *)
(* its return in one step, and the caller then takes the result.           *)
(***************************************************************************)
\* No ParseDynamoTag call yet, and no log kept.
NoParse == [tag |-> "", parser |-> EmptyParser, permuted |-> "", permutedParser |-> EmptyParser]
NoLog == [start |-> <<>>, served |-> <<>>]

NoCall ==
    [op |-> "", typ |-> "", shape |-> "", rec |-> <<>>, id |-> "", param |-> "",
     value |-> "", before |-> <<>>, was |-> <<>>, pre |-> NoItem, matching |-> <<>>,
     err |-> Nil, reqs |-> <<>>, resps |-> <<>>, out |-> <<>>]

NoHist == [op |-> "", typ |-> "", shape |-> "", rec |-> <<>>, id |-> ""]

NoProc == [pc |-> "idle", typ |-> "", rec |-> <<>>, shape |-> "", req |-> NoRequest,
           resp |-> "", raced |-> FALSE, err |-> Nil]
NoProcs == [p \in 1..NumProcs |-> NoProc]

\* What out holds before a read: the zero value, or the result of an earlier call.
StaleUser == <<"u9", "old@x.com", "Old", 9>>
StaleSlice == [isNil |-> FALSE, cap |-> 1, elems |-> <<StaleUser>>]

Arg(T, rec, shape) == [typ |-> T.name, rec |-> rec, shape |-> shape]

\* The records passed to Create and Update, by pointer or by value.
WriteArgs ==
    {Arg(UserType, rec, "ptr") : rec \in UserRecords}
        \cup {Arg(UserType, rec, "value") : rec \in {r \in UserRecords : r[1] = "u1"}}
        \cup {Arg(NoteType, rec, "ptr") : rec \in NoteRecords}
        \cup {Arg(StringType, rec, "value") : rec \in StringRecords}
        \cup {Arg(KeyOnlyType, rec, "ptr") : rec \in KeyOnlyRecords}
        \cup {Arg(BareType, rec, "ptr") : rec \in BareRecords}

IdArgs == {"u1", "u2", "u0"}

\* Delete takes an id only; the record type is the one whose records the caller
\* keeps in the repository.
DeleteTypes == {UserType, NoteType}

OutArg(T, shape, before) == [typ |-> T.name, shape |-> shape, before |-> before]

FindByIDArgs ==
    {OutArg(UserType, "ptr", before) : before \in {ZeroRecord(UserType), StaleUser}}
        \cup {OutArg(UserType, shape, ZeroRecord(UserType)) : shape \in {"value", "nilptr", "nil"}}
        \cup {OutArg(NoteType, "ptr", ZeroRecord(NoteType)),
              OutArg(NoteType, "nilptr", ZeroRecord(NoteType)),
              OutArg(StringType, "ptr", ZeroRecord(StringType))}

SliceArgs ==
    {OutArg(UserType, "ptrSlice", before) : before \in {NilSlice, StaleSlice}}
        \cup {OutArg(UserType, shape, NilSlice) : shape \in {"slice", "ptrStruct"}}
        \cup {OutArg(NoteType, "ptrSlice", NilSlice), OutArg(StringType, "ptrSlice", NilSlice)}

ParameterArgs ==
    { <<"email", "a@x.com">>, <<"email", "b@x.com">>, <<"name", "A">>, <<"name", "B">>,
      <<"zip", "A">> }

\* The item stored under the key a request addresses, NoItem when there is none.
Addressed(st, reqs) ==
    IF reqs = <<>> THEN NoItem
    ELSE LET req == reqs[1]
             keyAttr == TableKey(req.TableName)
         IN IF req.api = "PutItem"
            THEN IF keyAttr \in DOMAIN req.Item
                 THEN ItemAt(st, req.TableName, req.Item[keyAttr].v) ELSE NoItem
            ELSE IF keyAttr \in DOMAIN req.Key
                 THEN ItemAt(st, req.TableName, req.Key[keyAttr].v) ELSE NoItem

\* The stored items of the table a Query or Scan addresses that carry the value
\* under the attribute, in store order; every item for an empty attribute.
Matching(st, reqs, attr, value) ==
    IF reqs = <<>> \/ reqs[1].TableName \notin Tables THEN <<>>
    ELSE SelectSeq(TableItems(st, reqs[1].TableName),
                   LAMBDA it : attr = "" \/ (attr \in DOMAIN it /\ it[attr] = AttrS(value)))

Returned(op, a, id, param, value, r) ==
    [op |-> op, typ |-> a.typ, shape |-> a.shape, id |-> id, param |-> param, value |-> value,
     rec |-> IF op \in {"Create", "Update"} THEN a.rec ELSE <<>>,
     before |-> IF op \in {"Create", "Update"} THEN <<>> ELSE a.before,
     was |-> store,
     pre |-> Addressed(store, r.reqs),
     matching |-> IF op \in {"FindByParameter", "GetAll"}
                  THEN Matching(store, r.reqs, param, value) ELSE <<>>,
     err |-> r.err, reqs |-> r.reqs, resps |-> r.resps, out |-> r.out]

\* The table a call resolved is kept as the Repository's default.
Deliver_Cached(op, a, id, param, value, r) ==
    /\ call' = Returned(op, a, id, param, value, r)
    /\ store' = r.store
    /\ repoTable' = IF r.reqs # <<>> THEN r.reqs[1].TableName ELSE repoTable

\* The call returns: the store is as the call left it, call holds the result and
\* the Repository is as it was.
Deliver(op, a, id, param, value, r) ==
    /\ call' = Returned(op, a, id, param, value, r)
    /\ store' = r.store
    /\ repoTable' = repoTable

Init ==
    /\ store = EmptyStore
    /\ repoTable \in Tables
    /\ call = NoCall
    /\ hist = NoHist
    /\ procs = NoProcs
    /\ script = <<>>
    /\ parse = NoParse
    /\ log = NoLog

\* A Create call with one of the given records.
CreateCalled(args) ==
    /\ call = NoCall
    /\ \E a \in args, fail \in BOOLEAN :
        Deliver("Create", a, "", "", "",
                Create(store, repoTable, TypeNamed(a.typ), a.rec, a.shape, fail))
    /\ UNCHANGED <<hist, procs, script, parse, log>>

CallCreate == CreateCalled(WriteArgs)

\* A FindByID call with one of the given output handles.
FindByIDCalled(args) ==
    /\ call = NoCall
    /\ \E a \in args, id \in IdArgs, fail \in BOOLEAN :
        Deliver("FindByID", a, id, "", "",
                FindByID(store, repoTable, TypeNamed(a.typ), a.shape, id, a.before, fail))
    /\ UNCHANGED <<hist, procs, script, parse, log>>

CallFindByID == FindByIDCalled(FindByIDArgs)

CallFindByParameter ==
    /\ call = NoCall
    /\ \E a \in SliceArgs, pv \in ParameterArgs, fail \in BOOLEAN :
        Deliver("FindByParameter", a, "", pv[1], pv[2],
                FindByParameter(store, repoTable, TypeNamed(a.typ), a.shape, pv[1], pv[2], a.before, fail))
    /\ UNCHANGED <<hist, procs, script, parse, log>>

CallGetAll ==
    /\ call = NoCall
    /\ \E a \in SliceArgs, fail \in BOOLEAN :
        Deliver("GetAll", a, "", "", "",
                GetAll(store, repoTable, TypeNamed(a.typ), a.shape, a.before, fail))
    /\ UNCHANGED <<hist, procs, script, parse, log>>

\* An Update call with one of the given records.
UpdateCalled(args) ==
    /\ call = NoCall
    /\ \E a \in args, fail \in BOOLEAN :
        Deliver("Update", a, "", "", "",
                Update(store, repoTable, TypeNamed(a.typ), a.rec, a.shape, fail))
    /\ UNCHANGED <<hist, procs, script, parse, log>>

CallUpdate == UpdateCalled(WriteArgs)

CallDelete ==
    /\ call = NoCall
    /\ \E T \in DeleteTypes, id \in IdArgs, fail \in BOOLEAN :
        Deliver("Delete", [typ |-> T.name, shape |-> "", before |-> <<>>], id, "", "",
                Delete(store, repoTable, id, fail))
    /\ UNCHANGED <<hist, procs, script, parse, log>>

\* The caller takes the result; hist remembers the call if it was a successful write.
TakeResult ==
    /\ call # NoCall
    /\ call' = NoCall
    /\ hist' = IF call.err = Nil /\ call.op \in {"Create", "Update", "Delete"}
               THEN [op |-> call.op, typ |-> call.typ, shape |-> call.shape,
                     rec |-> call.rec, id |-> call.id]
               ELSE NoHist
    /\ UNCHANGED <<store, repoTable, procs, script, parse, log>>

Next ==
    \/ CallCreate
    \/ CallFindByID
    \/ CallFindByParameter
    \/ CallGetAll
    \/ CallUpdate
    \/ CallDelete
    \/ TakeResult

Spec == Init /\ [][Next]_vars

(***************************************************************************)
(* SpecSchema: one caller, as in Spec, whose record types are tagged in    *)
(* other ways: a field without a `dynamodbav` tag and a field without any  *)
(* tag (Session), two fields tagged key=hash (Pair), a non-key attribute   *)
(* named "k" (Flag), next to User.                                         *)
(***************************************************************************)
SchemaArgs ==
    {Arg(UserType, <<"u1", "a@x.com", "A", 1>>, "ptr")}
        \cup {Arg(SessionType, rec, "ptr") : rec \in SessionRecords}
        \cup {Arg(PairType, rec, "ptr") : rec \in PairRecords}
        \cup {Arg(FlagType, rec, "ptr") : rec \in FlagRecords}

SchemaOutArgs == {OutArg(TypeNamed(a.typ), "ptr", ZeroRecord(TypeNamed(a.typ))) : a \in SchemaArgs}

SchemaCreate == CreateCalled(SchemaArgs)

SchemaFindByID == FindByIDCalled(SchemaOutArgs)

SchemaUpdate == UpdateCalled(SchemaArgs)

NextSchema ==
    \/ SchemaCreate
    \/ SchemaFindByID
    \/ SchemaUpdate
    \/ TakeResult

SpecSchema == Init /\ [][NextSchema]_vars

(***************************************************************************)
(* SpecConc: callers run Create concurrently.  A call builds its request,  *)
(* the store serves the requests one at a time, and the call maps what the *)
(* store answered; the steps of different calls interleave.                *)
(***************************************************************************)
ConcArgs ==
    {a \in WriteArgs : a.typ = "User" /\ <<a.rec[2], a.rec[3], a.rec[4]>> \in
        { <<"a@x.com", "A", 1>>, <<"b@x.com", "A", 1>>, <<"", "", 0>> }}

InitConc ==
    /\ store \in {EmptyStore,
                  [EmptyStore EXCEPT !["Users"]["u1"] =
                        MarshalMap(UserType, <<"u1", "a@x.com", "B", 1>>)]}
    /\ repoTable \in Tables
    /\ call = NoCall
    /\ hist = NoHist
    /\ procs = NoProcs
    /\ script = <<>>
    /\ parse = NoParse
    /\ log = NoLog

\* Create up to the PutItem call: validation, marshaling, the request.
CreateBegin(p) ==
    /\ procs[p].pc = "idle"
    /\ \E a \in ConcArgs :
        LET T == TypeNamed(a.typ)
            invalid == validateStruct(T, a.rec, a.shape)
        IN procs' = [procs EXCEPT ![p] =
                IF invalid # ""
                THEN [NoProc EXCEPT !.pc = "done", !.typ = a.typ, !.rec = a.rec, !.shape = a.shape,
                                    !.err = Errorf("validation error", invalid)]
                ELSE [NoProc EXCEPT !.pc = "put", !.typ = a.typ, !.rec = a.rec, !.shape = a.shape,
                                    !.req = CreateInput(repoTable, T, a.rec, a.shape)]]
    /\ UNCHANGED <<store, repoTable, call, hist, script, parse, log>>

\* The store serves the request.  raced: another call's request for the same
\* table was waiting at that moment.
CreatePut(p) ==
    /\ procs[p].pc = "put"
    /\ \E fail \in BOOLEAN :
        LET resp == PutItem(store, procs[p].req, fail)
        IN /\ store' = resp.store
           /\ procs' = [procs EXCEPT ![p].pc = "answered", ![p].resp = resp.err,
                            ![p].raced = \E q \in DOMAIN procs :
                                            /\ q # p
                                            /\ procs[q].pc = "put"
                                            /\ procs[q].req.TableName = procs[p].req.TableName]
    /\ UNCHANGED <<repoTable, call, hist, script, parse, log>>

\* Create after the PutItem call: the error mapping.
CreateEnd(p) ==
    /\ procs[p].pc = "answered"
    /\ procs' = [procs EXCEPT ![p].pc = "done", ![p].err = CreateReturn(procs[p].resp)]
    /\ UNCHANGED <<store, repoTable, call, hist, script, parse, log>>

NextConc == \E p \in 1..NumProcs : CreateBegin(p) \/ CreatePut(p) \/ CreateEnd(p)

SpecConc == InitConc /\ [][NextConc]_vars

(***************************************************************************)
(* SpecMix: callers run Create, Update and Delete on one record key        *)
(* concurrently, with no locking between them.  A call builds its request, *)
(* the store serves the requests one at a time, and the call maps what the *)
(* store answered; log keeps the store at the start and the order in which *)
(* the store served the calls.                                             *)
(***************************************************************************)
MixRecords == { <<"u1", "a@x.com", "A", 1>>, <<"u1", "b@x.com", "B", 1>> }

MixStored == MarshalMap(UserType, <<"u1", "c@x.com", "C", 1>>)

NoMix == [pc |-> "idle", op |-> "", rec |-> <<>>, id |-> "", req |-> NoRequest,
          resp |-> "", err |-> Nil]

\* A call that returns before it builds a request.
MixRefused(op, rec, err) ==
    [NoMix EXCEPT !.pc = "done", !.op = op, !.rec = rec, !.err = err]

\* A call that has built its request.
MixSent(op, rec, id, req) ==
    [NoMix EXCEPT !.pc = "sent", !.op = op, !.rec = rec, !.id = id, !.req = req]

InitMix ==
    /\ store \in {EmptyStore,
                  [EmptyStore EXCEPT !["Users"]["u1"] = MixStored],
                  [EmptyStore EXCEPT !["Users"]["u1"] = MixStored,
                                     !["Users-dev"]["u1"] = MixStored]}
    /\ repoTable \in Tables
    /\ call = NoCall
    /\ hist = NoHist
    /\ procs = [p \in 1..NumProcs |-> NoMix]
    /\ script = <<>>
    /\ parse = NoParse
    /\ log = [start |-> store, served |-> <<>>]

\* Create up to the PutItem call.
MixCreateBegin(p) ==
    /\ procs[p].pc = "idle"
    /\ \E rec \in MixRecords :
        procs' = [procs EXCEPT ![p] =
            IF validateStruct(UserType, rec, "ptr") # ""
            THEN MixRefused("Create", rec,
                            Errorf("validation error", validateStruct(UserType, rec, "ptr")))
            ELSE MixSent("Create", rec, rec[1], CreateInput(repoTable, UserType, rec, "ptr"))]
    /\ UNCHANGED <<store, repoTable, call, hist, script, parse, log>>

\* Update up to the UpdateItem call.
MixUpdateBegin(p) ==
    /\ procs[p].pc = "idle"
    /\ \E rec \in MixRecords :
        procs' = [procs EXCEPT ![p] =
            IF UpdateRefused(UserType, "ptr") # ""
            THEN MixRefused("Update", rec, Errorf(UpdateRefused(UserType, "ptr"), ""))
            ELSE MixSent("Update", rec, rec[1], UpdateInput(repoTable, UserType, rec, "ptr"))]
    /\ UNCHANGED <<store, repoTable, call, hist, script, parse, log>>

\* Delete up to the DeleteItem call.
MixDeleteBegin(p) ==
    /\ procs[p].pc = "idle"
    /\ procs' = [procs EXCEPT ![p] = MixSent("Delete", <<>>, "u1", DeleteInput(repoTable, "u1"))]
    /\ UNCHANGED <<store, repoTable, call, hist, script, parse, log>>

\* What the store answers to the request of a call.
MixAnswer(st, c, fail) ==
    IF c.op = "Create" THEN PutItem(st, c.req, fail)
    ELSE IF c.op = "Update" THEN UpdateItem(st, c.req, fail)
    ELSE DeleteItem(st, c.req, fail)

\* The answer reaches the call.
MixAnswered(p, resp) ==
    /\ store' = resp.store
    /\ procs' = [procs EXCEPT ![p].pc = "answered", ![p].resp = resp.err]
    /\ log' = [log EXCEPT !.served = Append(@, p)]

\* The store serves the request of a call.
MixServe(p) ==
    /\ procs[p].pc = "sent"
    /\ \E fail \in BOOLEAN : MixAnswered(p, MixAnswer(store, procs[p], fail))
    /\ UNCHANGED <<repoTable, call, hist, script, parse>>

\* The call maps the answer to its result and returns.
MixEnd(p) ==
    /\ procs[p].pc = "answered"
    /\ procs' = [procs EXCEPT ![p].pc = "done",
                              ![p].err = IF procs[p].op = "Create" THEN CreateReturn(procs[p].resp)
                                         ELSE IF procs[p].op = "Update" THEN UpdateReturn(procs[p].resp)
                                         ELSE DeleteReturn(procs[p].resp)]
    /\ UNCHANGED <<store, repoTable, call, hist, script, parse, log>>

NextMix ==
    \E p \in 1..NumProcs :
        \/ MixCreateBegin(p)
        \/ MixUpdateBegin(p)
        \/ MixDeleteBegin(p)
        \/ MixServe(p)
        \/ MixEnd(p)

SpecMix == InitMix /\ [][NextMix]_vars

(***************************************************************************)
(* SpecScript: one caller makes the calls of the usage sequence in order,  *)
(* on tables that start empty: Create, Create again, FindByID,             *)
(* FindByParameter, Update, FindByID, Delete, FindByID.                    *)
(***************************************************************************)
ScriptCreated == <<"u1", "a@x.com", "A", 0>>
ScriptUpdated == <<"u1", "", "B", 0>>

Script ==
    << [op |-> "Create", rec |-> ScriptCreated],
       [op |-> "Create", rec |-> ScriptCreated],
       [op |-> "FindByID", rec |-> <<>>],
       [op |-> "FindByParameter", rec |-> <<>>],
       [op |-> "Update", rec |-> ScriptUpdated],
       [op |-> "FindByID", rec |-> <<>>],
       [op |-> "Delete", rec |-> <<>>],
       [op |-> "FindByID", rec |-> <<>>] >>

\* The call of one step, records and output handles passed by pointer.
ScriptCall(st, tableName, c, fail) ==
    IF c.op = "Create" THEN Create(st, tableName, UserType, c.rec, "ptr", fail)
    ELSE IF c.op = "FindByID"
         THEN FindByID(st, tableName, UserType, "ptr", "u1", ZeroRecord(UserType), fail)
    ELSE IF c.op = "FindByParameter"
         THEN FindByParameter(st, tableName, UserType, "ptrSlice", "email", "a@x.com", NilSlice, fail)
    ELSE IF c.op = "Update" THEN Update(st, tableName, UserType, c.rec, "ptr", fail)
    ELSE Delete(st, tableName, "u1", fail)

\* The step returns: its result is appended to script.
ScriptDeliver(c, r) ==
    /\ script' = Append(script, [op |-> c.op, err |-> r.err, resps |-> r.resps, out |-> r.out])
    /\ store' = r.store

InitScript ==
    /\ store = EmptyStore
    /\ repoTable \in Tables
    /\ call = NoCall
    /\ hist = NoHist
    /\ procs = NoProcs
    /\ script = <<>>
    /\ parse = NoParse
    /\ log = NoLog

ScriptStep ==
    /\ Len(script) < Len(Script)
    /\ \E fail \in BOOLEAN :
        ScriptDeliver(Script[Len(script) + 1],
                      ScriptCall(store, repoTable, Script[Len(script) + 1], fail))
    /\ UNCHANGED <<repoTable, call, hist, procs, parse, log>>

NextScript == ScriptStep

SpecScript == InitScript /\ [][NextScript]_vars

(***************************************************************************)
(* SpecTag: ParseDynamoTag is called on annotations made of a first token  *)
(* and option tokens, and on the same annotation with the option tokens in *)
(* another order.                                                          *)
(***************************************************************************)
\* First tokens: none, an attribute name, and one that reads like an option.
NameTokens == {"", "id", "required"}

\* Option tokens: the three options the parser knows, with different values,
\* and tokens it does not know.
OptionTokens ==
    {"key=hash", "key=range", "index=email-index", "index=name-index", "required",
     "omitempty", "Required", ""}

OptionLists == UNION {[1..n -> OptionTokens] : n \in 0..MaxOptions}

Orders(n) == {f \in [1..n -> 1..n] : \A i, j \in 1..n : i # j => f[i] # f[j]}

\* ParseDynamoTag of the two annotations.
ParseBoth(tag, permuted) ==
    [tag |-> tag, parser |-> ParseDynamoTag(tag),
     permuted |-> permuted, permutedParser |-> ParseDynamoTag(permuted)]

InitTag ==
    /\ store = EmptyStore
    /\ repoTable \in Tables
    /\ call = NoCall
    /\ hist = NoHist
    /\ procs = NoProcs
    /\ script = <<>>
    /\ parse = NoParse
    /\ log = NoLog

CallParseDynamoTag ==
    /\ parse = NoParse
    /\ \E first \in NameTokens, opts \in OptionLists :
        \E perm \in Orders(Len(opts)) :
            parse' = ParseBoth(Join(<<first>> \o opts, ","),
                               Join(<<first>> \o [i \in 1..Len(opts) |-> opts[perm[i]]], ","))
    /\ UNCHANGED <<store, repoTable, call, hist, procs, script, log>>

NextTag == CallParseDynamoTag

SpecTag == InitTag /\ [][NextTag]_vars

(***************************************************************************)
(* Properties.  In Spec, call holds the call that has just returned with   *)
(* what it was given, what the addressed table held before it (pre,        *)
(* matching), the requests it issued, the store's answers and its result;  *)
(* hist holds the write that succeeded right before it.                    *)
(***************************************************************************)

\* The positions of the fields of T tagged key=hash.
HashFields(T) ==
    {i \in 1..Len(T.fields) : T.fields[i].hasDynamo /\ TagOf(T.fields[i]).KeyType = "hash"}

\* The attribute name of the first field of T tagged key=hash.
FirstHashAttr(T) ==
    TagOf(T.fields[CHOOSE i \in HashFields(T) : \A j \in HashFields(T) : i <= j]).AttributeName

\* No required field of the record holds its zero value.
RequiredSet(T, rec) ==
    \A i \in 1..Len(T.fields) :
        T.fields[i].hasDynamo /\ TagOf(T.fields[i]).Required
            => ~IsZero(T.fields[i].kind, rec[i])

\* The call issued one request and the store answered it without an error.
Served == Len(call.reqs) = 1 /\ call.resps = <<"">>

\* The store failed the call's request for a reason of its own.
GatewayFailed == call.resps # <<>> /\ call.resps[1] = StoreFailure

\* The records a slice read is to return: the decoded items of call.matching.
Expected(T) ==
    [i \in 1..Len(call.matching) |-> UnmarshalMap(call.matching[i], T, ZeroRecord(T)).out]

\* C1: for a record whose type declares one hash-key field and whose required
\* fields are all set, Create on a table holding no item under the record's key
\* succeeds, and a Create with the same key right after a successful Create
\* returns ErrDuplicateKey (the store answering both requests).
C1_CreateThenDuplicate ==
    LET T == TypeNamed(call.typ)
    IN (/\ call.op = "Create"
        /\ call.shape \in {"ptr", "value"}
        /\ T.isStruct
        /\ Cardinality(HashFields(T)) = 1
        /\ RequiredSet(T, call.rec)
        /\ ~GatewayFailed)
       => /\ Len(call.reqs) = 1
          /\ call.pre = NoItem => call.err = Nil
          /\ (/\ hist.op = "Create"
              /\ hist.typ = call.typ
              /\ hist.shape = call.shape
              /\ \A i \in HashFields(T) : hist.rec[i] = call.rec[i])
             => call.err = ErrDuplicateKey

\* C1 witness: a second Create with the key of the Create that just succeeded
\* has returned ErrDuplicateKey.
C1_Witness ==
    /\ call.op = "Create"
    /\ hist.op = "Create"
    /\ hist.typ = call.typ
    /\ hist.shape = call.shape
    /\ Cardinality(HashFields(TypeNamed(call.typ))) = 1
    /\ \A i \in HashFields(TypeNamed(call.typ)) : hist.rec[i] = call.rec[i]
    /\ hist.rec # call.rec
    /\ call.err = ErrDuplicateKey

\* C3: every PutItem that Create issues carries a condition asserting that the
\* hash-key attribute does not exist, and Create never replaces a stored item,
\* whatever the record type Create accepts.
C3_CreateNeverOverwrites ==
    LET T == TypeNamed(call.typ)
    IN call.op = "Create" /\ call.reqs # <<>>
       => /\ HashFields(T) # {}
          /\ \E i \in HashFields(T) :
                call.reqs[1].ConditionExpression =
                    "attribute_not_exists(" \o TagOf(T.fields[i]).AttributeName \o ")"
          /\ call.pre # NoItem => Addressed(store, call.reqs) = call.pre

\* C4: FindByID with the key of the record that Create has just stored succeeds
\* and fills out with that record's declared attributes.
C4_CreateFindByIDRoundTrip ==
    LET T == TypeNamed(call.typ)
    IN (/\ call.op = "FindByID"
        /\ call.shape = "ptr"
        /\ hist.op = "Create"
        /\ hist.typ = call.typ
        /\ \A i \in HashFields(T) : hist.rec[i] = call.id
        /\ ~GatewayFailed)
       => /\ call.err = Nil
          /\ \A i \in 1..Len(T.fields) : T.fields[i].hasDynamo => call.out[i] = hist.rec[i]

\* C5: when the table holds no item under the id, FindByID returns ErrNotFound,
\* the error Update and Delete return for a missing item, and not the error it
\* returns when the store fails.
C5_FindByIDNotFound ==
    call.op = "FindByID" /\ Served /\ call.pre = NoItem
        => /\ ErrorsIs(call.err, ErrNotFound)
           /\ call.err.cause # StoreFailure

\* C6: a FindByParameter call that passes the checks of out issues exactly one
\* request: a Query on the declared index with the parameter as the key
\* condition when a tagged field has the parameter as its attribute name and a
\* non-empty index, a Scan filtered on the parameter otherwise.
C6_FindByParameterRouting ==
    LET T == TypeNamed(call.typ)
        declaring == {i \in 1..Len(T.fields) :
                        /\ T.fields[i].hasDynamo
                        /\ TagOf(T.fields[i]).AttributeName = call.param
                        /\ TagOf(T.fields[i]).Index # ""}
    IN call.op = "FindByParameter"
       => IF call.shape = "ptrSlice" /\ T.isStruct
          THEN /\ Len(call.reqs) = 1
               /\ call.reqs[1].ExpressionAttributeValues = (":v" :> AttrS(call.value))
               /\ IF declaring # {}
                  THEN /\ call.reqs[1].api = "Query"
                       /\ \E i \in declaring :
                            call.reqs[1].IndexName = TagOf(T.fields[i]).Index
                       /\ call.reqs[1].KeyConditionExpression = call.param \o " = :v"
                  ELSE /\ call.reqs[1].api = "Scan"
                       /\ call.reqs[1].IndexName = ""
                       /\ call.reqs[1].FilterExpression = call.param \o " = :v"
          ELSE call.reqs = <<>>

\* C6 witness: a FindByParameter on the indexed attribute has been served by a
\* Query on its index and has returned a stored record.
C6_Witness ==
    /\ call.op = "FindByParameter"
    /\ call.param = "email"
    /\ Served
    /\ call.reqs[1].api = "Query"
    /\ call.reqs[1].IndexName = "email-index"
    /\ call.before = NilSlice
    /\ Len(call.out.elems) = 1

\* C7: FindByParameter on an indexed attribute returns exactly the records
\* stored with that value under the attribute, however many there are.
C7_IndexedLookupExact ==
    (/\ call.op = "FindByParameter"
     /\ Served
     /\ call.reqs[1].api = "Query"
     /\ call.before = NilSlice)
    => /\ call.err = Nil
       /\ call.out.elems = Expected(TypeNamed(call.typ))

\* C8: FindByParameter on an attribute without an index returns, through a
\* filtered Scan, exactly the records stored with that value under the attribute.
C8_ScanLookupExact ==
    (/\ call.op = "FindByParameter"
     /\ Served
     /\ call.reqs[1].api = "Scan"
     /\ call.before = NilSlice)
    => /\ call.err = Nil
       /\ call.out.elems = Expected(TypeNamed(call.typ))

\* C9: when no stored record matches, FindByParameter returns no error and
\* leaves out an empty, non-nil collection, whatever out held before the call.
C9_ZeroMatchesEmptyNonNil ==
    call.op = "FindByParameter" /\ Served /\ call.matching = <<>>
        => /\ call.err = Nil
           /\ ~call.out.isNil
           /\ call.out.elems = <<>>

\* C10: GetAll returns every item the table holds, reading every page of the
\* listing.
C10_GetAllReturnsEveryItem ==
    call.op = "GetAll" /\ Served /\ call.before = NilSlice
        => /\ call.err = Nil
           /\ call.out.elems = Expected(TypeNamed(call.typ))

\* The fields of T updated by Update: tagged, naming an attribute, not the hash key.
NonKeyFields(T) ==
    {i \in 1..Len(T.fields) : /\ T.fields[i].hasDynamo
                              /\ TagOf(T.fields[i]).AttributeName # ""
                              /\ TagOf(T.fields[i]).KeyType # "hash"}

\* C11: an Update whose key has no stored item returns ErrNotFound (the store
\* answering the request) and leaves the store as it was; no Update puts an item
\* where there was none.
C11_UpdateMissingKey ==
    call.op = "Update"
    => /\ (Len(call.reqs) = 1 /\ call.pre = NoItem /\ ~GatewayFailed) => call.err = ErrNotFound
       /\ call.pre = NoItem => store = call.was
       /\ \A t \in Tables, k \in KeyValues : call.was[t][k] = NoItem => store[t][k] = NoItem

\* C11 witness: an Update of a record whose key is not stored, on a table that
\* holds another item, has returned ErrNotFound.
C11_Witness ==
    /\ call.op = "Update"
    /\ call.typ = "User"
    /\ Len(call.reqs) = 1
    /\ call.pre = NoItem
    /\ TableItems(call.was, call.reqs[1].TableName) # <<>>
    /\ call.err = ErrNotFound

\* C12: a successful Update changes only the non-key attributes the caller set in
\* the submitted record; every other attribute of the stored item, the key and
\* the declared attributes left unset in the record included, keeps its value.
C12_UpdateChangesOnlySubmitted ==
    LET T == TypeNamed(call.typ)
        submitted == {TagOf(T.fields[i]).AttributeName :
                        i \in {j \in NonKeyFields(T) : ~IsZero(T.fields[j].kind, call.rec[j])}}
        new == Addressed(store, call.reqs)
    IN call.op = "Update" /\ call.err = Nil
       => \A a \in DOMAIN call.pre :
            a \notin submitted => a \in DOMAIN new /\ new[a] = call.pre[a]

\* C13: Delete with the key of the record that Create has just stored returns
\* success and removes the item, and FindByID with that key then returns
\* ErrNotFound.
C13_DeleteCreatedRecord ==
    LET T == TypeNamed(call.typ)
    IN /\ (/\ call.op = "Delete"
           /\ hist.op = "Create"
           /\ hist.typ = call.typ
           /\ HashFields(T) # {}
           /\ \A i \in HashFields(T) : hist.rec[i] = call.id
           /\ ~GatewayFailed)
          => call.err = Nil /\ Addressed(store, call.reqs) = NoItem
       /\ (/\ call.op = "FindByID"
           /\ call.shape = "ptr"
           /\ hist.op = "Delete"
           /\ hist.typ = call.typ
           /\ hist.id = call.id
           /\ Served)
          => ErrorsIs(call.err, ErrNotFound)

\* C14: a Delete of an id under which the table holds no item returns
\* ErrNotFound (the store answering the request) and leaves every stored item as
\* it was.
C14_DeleteMissing ==
    call.op = "Delete" /\ call.pre = NoItem
        => /\ store = call.was
           /\ ~GatewayFailed => call.err = ErrNotFound

\* C14 witness: a Delete of an id that is not stored, on a table that holds
\* another item, has returned ErrNotFound.
C14_Witness ==
    /\ call.op = "Delete"
    /\ call.pre = NoItem
    /\ TableItems(call.was, call.reqs[1].TableName) # <<>>
    /\ call.err = ErrNotFound

\* C16: when a required field of the record holds its zero value, Create returns
\* a validation error naming the first such field in declaration order, issues
\* no request and leaves the store as it was; otherwise Create issues its request.
C16_RequiredValidation ==
    LET T == TypeNamed(call.typ)
        missing == {i \in 1..Len(T.fields) :
                        /\ T.fields[i].hasDynamo
                        /\ TagOf(T.fields[i]).Required
                        /\ IsZero(T.fields[i].kind, call.rec[i])}
        first == CHOOSE i \in missing : \A j \in missing : i <= j
    IN call.op = "Create" /\ T.isStruct /\ call.shape \in {"ptr", "value"}
       => IF missing # {}
          THEN /\ call.err = Errorf("validation error",
                                    "field " \o T.fields[first].goName \o " is required")
               /\ call.reqs = <<>>
               /\ store = call.was
          ELSE Len(call.reqs) = 1

\* C16 witness: a Create of a record with two required fields unset has been
\* refused naming the first of them.
C16_Witness ==
    /\ call.op = "Create"
    /\ call.typ = "User"
    /\ call.rec[2] = "" /\ call.rec[3] = ""
    /\ call.err = Errorf("validation error", "field Email is required")
    /\ call.reqs = <<>>

\* C17: the request of Create, FindByID, FindByParameter, GetAll and Update
\* addresses the table named by the record type's TableName method when the type
\* has one, whether the record is passed by value or by pointer, and the
\* Repository's default table otherwise.
C17_TableResolution ==
    LET T == TypeNamed(call.typ)
    IN (/\ call.op \in {"Create", "FindByID", "FindByParameter", "GetAll", "Update"}
        /\ call.reqs # <<>>)
       => call.reqs[1].TableName = IF T.namer # "none" THEN T.table ELSE repoTable

\* C18: FindByID, Update and Delete for a record type that declares no hash-key
\* field return the schema error, issue no request and leave the store as it was.
C18_NoHashKeySchemaError ==
    LET T == TypeNamed(call.typ)
    IN (/\ call.op \in {"FindByID", "Update", "Delete"}
        /\ T.isStruct
        /\ HashFields(T) = {}
        /\ call.op = "FindByID" => call.shape = "ptr"
        /\ call.op = "Update" => call.shape \in {"ptr", "value"})
       => /\ call.err = Errorf("no hash key defined in struct", "")
          /\ call.reqs = <<>>
          /\ store = call.was

\* C19 as stated: Update returns the "no updatable fields" error and issues no
\* request whenever the record type declares no non-key field, and otherwise its
\* update expression has one SET clause for each declared non-key field.
C19_NoUpdatableFields_AsStated ==
    LET T == TypeNamed(call.typ)
    IN call.op = "Update" /\ T.isStruct /\ call.shape \in {"ptr", "value"}
       => IF NonKeyFields(T) = {}
          THEN call.err = Errorf("no updatable fields found", "") /\ call.reqs = <<>>
          ELSE /\ Len(call.reqs) = 1
               /\ HasPrefix(call.reqs[1].UpdateExpression, "SET ")

\* C19: for a record type that declares a hash key, Update returns the "no
\* updatable fields" error and issues no request when the type declares no
\* non-key field, and otherwise issues an update expression with exactly one SET
\* clause #a = :a for each declared non-key field; a type without a hash key
\* gets the schema error first.
C19_NoUpdatableFields ==
    LET T == TypeNamed(call.typ)
        clauses == Clauses(TrimPrefix(call.reqs[1].UpdateExpression, "SET "))
    IN call.op = "Update" /\ T.isStruct /\ call.shape \in {"ptr", "value"}
       => IF HashFields(T) = {}
          THEN call.err = Errorf("no hash key defined in struct", "") /\ call.reqs = <<>>
          ELSE IF NonKeyFields(T) = {}
          THEN call.err = Errorf("no updatable fields found", "") /\ call.reqs = <<>>
          ELSE /\ Len(call.reqs) = 1
               /\ HasPrefix(call.reqs[1].UpdateExpression, "SET ")
               /\ Len(clauses) = Cardinality(NonKeyFields(T))
               /\ \A i \in NonKeyFields(T) :
                    \E j \in 1..Len(clauses) :
                        clauses[j] = << "#" \o TagOf(T.fields[i]).AttributeName,
                                        ":" \o TagOf(T.fields[i]).AttributeName >>

\* C19 witness: an Update of a record whose type declares only its hash key has
\* returned the "no updatable fields" error without a request.
C19_Witness ==
    /\ call.op = "Update"
    /\ call.typ = "KeyOnly"
    /\ call.err = Errorf("no updatable fields found", "")
    /\ call.reqs = <<>>

\* C20: every call ends in success or in one error; it returns success only if
\* the store answered its request without an error; a failed condition is
\* returned as ErrDuplicateKey by Create and as ErrNotFound by Update and
\* Delete; any other failure of the store is returned wrapped; a call that
\* returns an error leaves the store as it was.
C20_OneOutcome ==
    call.op # ""
    => /\ call.err.kind \in {"nil", "sentinel", "errorf"}
       /\ call.err = Nil => Served
       /\ (call.resps # <<>> /\ call.resps[1] = ConditionalCheckFailed)
            => call.err = IF call.op = "Create" THEN ErrDuplicateKey ELSE ErrNotFound
       /\ GatewayFailed => call.err.kind = "errorf" /\ call.err.cause = StoreFailure
       /\ call.err # Nil => store = call.was

\* C21: a call never retries: it gets one answer for each request it issues,
\* and once the store has answered a request with a failure (a failed condition
\* or any other error) the call issues no further request.
C21_NeverRetries ==
    call.op # ""
    => /\ Len(call.resps) = Len(call.reqs)
       /\ \A i \in 1..Len(call.resps) : call.resps[i] # "" => i = Len(call.reqs)
       /\ Len(call.reqs) <= 1

\* C21 witness: the store has failed the request of an Update for a reason of
\* its own, and the Update has returned that failure after its one request.
C21_Witness ==
    /\ call.op = "Update"
    /\ Len(call.reqs) = 1
    /\ call.resps = <<StoreFailure>>
    /\ call.err = Errorf("failed to update item", StoreFailure)
    /\ call.pre # NoItem

C24_FindByIDTypeError ==
    LET T == TypeNamed(call.typ)
    IN call.op = "FindByID" /\ (call.shape \in {"nil", "nilptr", "value"} \/ ~T.isStruct)
       => /\ call.err \in {Errorf("out must be a pointer", ""),
                            Errorf("out must be a pointer to struct", "")}
          /\ call.reqs = <<>>

\* C28: after a successful Create or Update, the item stored under the record's
\* key holds a value other than the zero value for every field the record type
\* flags as required; Update stores no zero value that Create would refuse.
C28_RequiredNeverZero ==
    LET T == TypeNamed(call.typ)
        item == Addressed(store, call.reqs)
        required == {i \in 1..Len(T.fields) :
                        T.fields[i].hasDynamo /\ TagOf(T.fields[i]).Required}
    IN call.op \in {"Create", "Update"} /\ call.err = Nil
       => \A i \in required :
            /\ TagOf(T.fields[i]).AttributeName \in DOMAIN item
            /\ item[TagOf(T.fields[i]).AttributeName]
                    # Marshal(T.fields[i].kind, ZeroValue(T.fields[i].kind))

\* C29: for a record type that declares a hash key, the request Delete issues
\* addresses the table that Create, FindByID and Update resolve for a record of
\* that type, and its key map has the type's hash-key attribute alone.
C29_DeleteSameTableAndKey ==
    LET T == TypeNamed(call.typ)
    IN call.op = "Delete" /\ call.reqs # <<>> /\ HashFields(T) # {}
       => /\ call.reqs[1].TableName = getTableName(repoTable, T, "ptr")
          /\ DOMAIN call.reqs[1].Key = {FirstHashAttr(T)}

(***************************************************************************)
(* Properties of SpecScript.                                               *)
(***************************************************************************)

\* C15: in the usage sequence on empty tables, the store answering every
\* request: Create succeeds; the second Create returns ErrDuplicateKey;
\* FindByID yields email a@x.com; FindByParameter on email yields one record,
\* u1; after Update({id: u1, name: B}) FindByID yields name B and email still
\* a@x.com; after Delete, FindByID returns ErrNotFound.
C15_EndToEnd ==
    LET n == Len(script)
        served == \A i \in 1..n : script[i].resps = <<"">> \/ script[i].resps = <<ConditionalCheckFailed>>
    IN served
       => /\ n >= 1 => script[1].err = Nil
          /\ n >= 2 => script[2].err = ErrDuplicateKey
          /\ n >= 3 => script[3].err = Nil /\ script[3].out[2] = "a@x.com"
          /\ n >= 4 => /\ script[4].err = Nil
                       /\ Len(script[4].out.elems) = 1
                       /\ script[4].out.elems[1][1] = "u1"
          /\ n >= 5 => script[5].err = Nil
          /\ n >= 6 => /\ script[6].err = Nil
                       /\ script[6].out[3] = "B"
                       /\ script[6].out[2] = "a@x.com"
          /\ n >= 7 => script[7].err = Nil
          /\ n >= 8 => ErrorsIs(script[8].err, ErrNotFound)

(***************************************************************************)
(* Properties of SpecSchema.                                               *)
(***************************************************************************)

\* C25: the item of the PutItem that Create issues has exactly one attribute
\* for each annotated field of the record, named by the attribute name of the
\* field's annotation and holding the field's value; a field without an
\* annotation contributes no attribute.
C25_CreateItemAttributes ==
    LET T == TypeNamed(call.typ)
        annotated == {i \in 1..Len(T.fields) : T.fields[i].hasDynamo}
        item == call.reqs[1].Item
    IN call.op = "Create" /\ call.reqs # <<>>
       => /\ DOMAIN item = {TagOf(T.fields[i]).AttributeName : i \in annotated}
          /\ \A i \in annotated :
                item[TagOf(T.fields[i]).AttributeName] = Marshal(T.fields[i].kind, call.rec[i])

\* C26: for a record type that declares a hash key, the requests of Create,
\* FindByID and Update name one and the same key attribute, that of the first
\* field tagged key=hash: Create's condition is attribute_not_exists of it,
\* FindByID's key map has it alone, Update's key map has it alone and Update's
\* condition attribute_exists(#k) has #k standing for it.
C26_OneHashKeyAttribute ==
    LET T == TypeNamed(call.typ)
        req == call.reqs[1]
    IN (/\ call.op \in {"Create", "FindByID", "Update"}
        /\ call.reqs # <<>>
        /\ HashFields(T) # {})
       => IF call.op = "Create"
          THEN req.ConditionExpression = "attribute_not_exists(" \o FirstHashAttr(T) \o ")"
          ELSE IF call.op = "FindByID"
          THEN DOMAIN req.Key = {FirstHashAttr(T)}
          ELSE /\ DOMAIN req.Key = {FirstHashAttr(T)}
               /\ req.ConditionExpression = "attribute_exists(#k)"
               /\ req.ExpressionAttributeNames["#k"] = FirstHashAttr(T)

\* C27: in the request Update issues, the placeholder #k of the condition
\* stands for a hash-key attribute, every SET clause assigns through a
\* placeholder other than #k that stands for a non-key attribute, and every
\* declared non-key attribute is assigned by a clause.
C27_PlaceholdersNeverAlias ==
    LET T == TypeNamed(call.typ)
        req == call.reqs[1]
        names == req.ExpressionAttributeNames
        clauses == Clauses(TrimPrefix(req.UpdateExpression, "SET "))
        keyAttrs == {TagOf(T.fields[i]).AttributeName : i \in HashFields(T)}
        nonKeyAttrs == {TagOf(T.fields[i]).AttributeName : i \in NonKeyFields(T)}
    IN call.op = "Update" /\ call.reqs # <<>>
       => /\ req.ConditionExpression = "attribute_exists(#k)"
          /\ names["#k"] \in keyAttrs
          /\ \A i \in 1..Len(clauses) :
                /\ clauses[i][1] # "#k"
                /\ clauses[i][1] \in DOMAIN names
                /\ names[clauses[i][1]] \in nonKeyAttrs
          /\ \A a \in nonKeyAttrs :
                \E i \in 1..Len(clauses) : names[clauses[i][1]] = a

(***************************************************************************)
(* Properties of SpecTag.                                                  *)
(***************************************************************************)

\* C22: for every annotation, the attribute name ParseDynamoTag returns is the
\* first comma-separated token; the key role and the index name are those of a
\* key= and an index= token after the first (empty when there is none) and the
\* required flag is set exactly when a token after the first is "required",
\* other tokens making no difference; and the annotation with the tokens after
\* the first in any other order yields the same descriptor.
C22_ParseDynamoTag ==
    LET tokens == Split(parse.tag, ",")
        options == {tokens[i] : i \in 2..Len(tokens)}
        keys == {TrimPrefix(o, "key=") : o \in {x \in options : HasPrefix(x, "key=")}}
        indexes == {TrimPrefix(o, "index=") : o \in {x \in options : HasPrefix(x, "index=")}}
    IN /\ parse.parser.AttributeName = tokens[1]
       /\ parse.parser.KeyType \in (IF keys = {} THEN {""} ELSE keys)
       /\ parse.parser.Index \in (IF indexes = {} THEN {""} ELSE indexes)
       /\ parse.parser.Required = ("required" \in options)
       /\ parse.permutedParser = parse.parser

(***************************************************************************)
(* Properties of SpecMix.                                                  *)
(***************************************************************************)

\* The call of a caller, run in one piece on the store st.
MixCall(st, c) ==
    IF c.op = "Create" THEN Create(st, repoTable, UserType, c.rec, "ptr", c.resp = StoreFailure)
    ELSE IF c.op = "Update" THEN Update(st, repoTable, UserType, c.rec, "ptr", c.resp = StoreFailure)
    ELSE Delete(st, repoTable, c.id, c.resp = StoreFailure)

\* The store after the first n served calls have run one after the other, in the
\* order the store served them, from the store at the start.
RECURSIVE MixReplay(_)
MixReplay(n) ==
    IF n = 0 THEN log.start ELSE MixCall(MixReplay(n - 1), procs[log.served[n]]).store

\* C30: concurrent Create, Update and Delete calls on one record key are
\* equivalent to the calls run one after the other in the order the store
\* served them: the store and every result are those of that sequential run;
\* an Update served after a successful Delete of its record's key, no Create of
\* the key having succeeded in between, finds its condition failed and returns
\* ErrNotFound; and when the last successful write of the key is a Delete, no
\* item is stored under the key in the record type's table.
C30_InterleavingSequential ==
    LET n == Len(log.served)
        c(i) == procs[log.served[i]]
        wrote(i) == c(i).resp = ""
    IN /\ store = MixReplay(n)
       /\ \A i \in 1..n :
            c(i).pc = "done" => c(i).err = MixCall(MixReplay(i - 1), c(i)).err
       /\ \A i, j \in 1..n :
            (/\ i < j
             /\ c(i).op = "Delete" /\ wrote(i)
             /\ c(j).op = "Update" /\ c(j).id = c(i).id /\ c(j).resp # StoreFailure
             /\ \A m \in (i + 1)..(j - 1) : ~(c(m).op = "Create" /\ wrote(m)))
            => /\ c(j).resp = ConditionalCheckFailed
               /\ c(j).pc = "done" => c(j).err = ErrNotFound
       /\ \A i \in 1..n :
            (/\ c(i).op = "Delete" /\ wrote(i)
             /\ \A m \in (i + 1)..n : ~wrote(m))
            => ItemAt(store, getTableName(repoTable, UserType, "ptr"), c(i).id) = NoItem

(***************************************************************************)
(* Properties of SpecConc.                                                 *)
(***************************************************************************)

\* C2: of the concurrent Create calls whose requests address the same key of
\* the same table, at most one returns success, every other one the store
\* answered returns ErrDuplicateKey, and the item stored under the key is the
\* record of the call that succeeded.
C2_ConcurrentCreateOneWinner ==
    \A p \in DOMAIN procs :
        procs[p].pc = "done" /\ procs[p].req.api = "PutItem"
        => LET t == procs[p].req.TableName
               k == procs[p].req.Item[TableKey(t)].v
               rivals == {q \in DOMAIN procs \ {p} :
                            /\ procs[q].pc = "done"
                            /\ procs[q].req.api = "PutItem"
                            /\ procs[q].req.TableName = t
                            /\ procs[q].req.Item[TableKey(t)].v = k}
           IN /\ procs[p].err = Nil
                    => /\ \A q \in rivals : procs[q].err # Nil
                       /\ store[t][k] = MarshalMap(TypeNamed(procs[p].typ), procs[p].rec)
              /\ procs[p].err # Nil /\ procs[p].resp # StoreFailure
                    => procs[p].err = ErrDuplicateKey

\* C2 witness: two calls raced for one key with different records; one has
\* succeeded, the other has returned ErrDuplicateKey.
C2_Witness ==
    \E p, q \in DOMAIN procs :
        /\ p # q
        /\ procs[p].pc = "done" /\ procs[q].pc = "done"
        /\ procs[p].raced
        /\ procs[p].req.TableName = procs[q].req.TableName
        /\ procs[p].req.Item # procs[q].req.Item
        /\ procs[p].req.Item["id"] = procs[q].req.Item["id"]
        /\ procs[p].err = Nil
        /\ procs[q].err = ErrDuplicateKey

====
